---------------------------- MODULE Spec2Model ----------------------------
(***************************************************************************)
(* Model of sendCalls (src/experimental/eip5792/actions/sendCalls.ts):     *)
(* one invocation of the action against a client and an external agent.    *)
(* The invocation is cut at the points where something observable happens: *)
(* parameter resolution, one call of the map callback, the evaluation of   *)
(* the request envelope together with client.request, and the agent's      *)
(* answer.                                                                 *)
(***************************************************************************)
EXTENDS Integers, Sequences, FiniteSets, TLC

(* ---------- optional values: undefined is <<>>, a value v is <<v>> ------ *)
None == <<>>
Some(v) == <<v>>
Has(o) == o # <<>>
Val(o) == o[1]

(* ---------- bounds of the model ----------------------------------------- *)
MaxCalls == 2

(* ---------- collaborators ------------------------------------------------ *)
HexDigit == <<"0", "1", "2", "3", "4", "5", "6", "7",
              "8", "9", "a", "b", "c", "d", "e", "f">>

RECURSIVE HexDigits(_)
HexDigits(n) ==
  IF n < 16 THEN <<HexDigit[n + 1]>>
  ELSE HexDigits(n \div 16) \o <<HexDigit[(n % 16) + 1]>>

\* numberToHex: "0x" followed by the digits, no leading zeros, zero is 0x0
numberToHex(n) == <<"0x">> \o HexDigits(n)

\* parseAccount: an address becomes a json-rpc account, an account is kept
parseAccount(a) ==
  IF a.kind = "address"
  THEN [kind |-> "account", address |-> a.address, type |-> "json-rpc"]
  ELSE a

\* encodeFunctionData: a pure function of (abi, functionName, args) that
\* fails on arguments the abi does not accept
encodeFunctionData(abi, functionName, args) ==
  IF args = "badArgs"
  THEN [ok |-> FALSE, data |-> <<>>]
  ELSE [ok |-> TRUE, data |-> <<"0x", abi, functionName, args>>]

(* ---------- input domains ------------------------------------------------ *)
AddressRef == [kind |-> "address", address |-> "0xA0Cf", type |-> ""]
LocalAccount == [kind |-> "account", address |-> "0xf39F", type |-> "local"]

ClientAccounts == {None, Some(LocalAccount)}
ParamAccounts == {None, Some(AddressRef)}
ClientChains == {None, Some([id |-> 1])}
ParamChains == {None, Some([id |-> 0]), Some([id |-> 2])}
ParamVersions == {None, Some("2.0.0")}

CallChains == {None, Some([id |-> 0]), Some([id |-> 3])}
CallChainIds == {None, Some(5)}
CallValues == {None, Some(0), Some(69420)}

RawCall(c, cid, d, t, v) ==
  [chain |-> c, chainId |-> cid, abi |-> None, functionName |-> "", args |-> "",
   data |-> d, to |-> t, value |-> v]

ContractCall(c, cid, a, v) ==
  [chain |-> c, chainId |-> cid, abi |-> Some("erc20Abi"),
   functionName |-> "transfer", args |-> a,
   data |-> None, to |-> Some("0xAAA"), value |-> v]

\* every chain override on a plain payload, every payload shape and amount
\* on a call without override, and the calls that fail twice or carry both
\* overrides next to an amount
Calls ==
  {RawCall(c, cid, Some("0xdeadbeef"), Some("0xAAA"), None) :
      <<c, cid>> \in CallChains \X CallChainIds}
  \cup {RawCall(None, None, None, Some("0xBBB"), v) : v \in CallValues}
  \cup {ContractCall(None, None, a, v) :
      <<a, v>> \in {"okArgs", "badArgs"} \X {None, Some(69420)}}
  \cup {ContractCall(c, Some(5), "badArgs", None) : c \in CallChains}
  \cup {RawCall(Some([id |-> 3]), Some(5), None, None, Some(0))}

RECURSIVE SeqsUpTo(_, _)
SeqsUpTo(S, n) ==
  IF n = 0 THEN {<<>>}
  ELSE LET shorter == SeqsUpTo(S, n - 1)
       IN shorter \cup {Append(s, x) : <<s, x>> \in shorter \X S}

AgentIds == {"0xbatch1", "0xbatch2"}

(* ---------- state -------------------------------------------------------- *)
VARIABLES
  client,      \* the client's ambient account and chain
  parameters,  \* the parameters of the invocation
  pc,          \* position of the invocation
  account,     \* the parsed account (line 96)
  chain,       \* the batch-level chain (line 88)
  calls,       \* the normalized calls built by map so far
  i,           \* index of the call the map callback handles next
  log,         \* chain resolutions, encodings and requests, in order
  requests,    \* requests handed to client.request
  agent,       \* what the agent answered
  result       \* what the invocation returned or threw

vars == <<client, parameters, pc, account, chain, calls, i, log,
          requests, agent, result>>

NoError == [name |-> "", cause |-> "", account |-> None, chain |-> None]
Pending == [status |-> "pending", id |-> "", error |-> NoError]
Returned(id) == [status |-> "returned", id |-> id, error |-> NoError]
Thrown(e) == [status |-> "thrown", id |-> "", error |-> e]

Error(name) == [name |-> name, cause |-> "", account |-> None, chain |-> None]

Init ==
  /\ client \in [account : ClientAccounts, chain : ClientChains]
  /\ parameters \in [account : ParamAccounts, chain : ParamChains,
                     calls : SeqsUpTo(Calls, MaxCalls),
                     capabilities : {None}, version : ParamVersions]
  /\ pc = "start"
  /\ account = None
  /\ chain = None
  /\ calls = <<>>
  /\ i = 1
  /\ log = <<>>
  /\ requests = <<>>
  /\ agent = "idle"
  /\ result = Pending

(* ---------- lines 85-96: defaults and the account check ------------------ *)
Default(explicit, ambient) == IF Has(explicit) THEN explicit ELSE ambient

ResolveParameters_NoAccountCheck ==
  /\ pc = "start"
  /\ LET account_ == Default(parameters.account, client.account)
     IN /\ account' = IF Has(account_) THEN Some(parseAccount(Val(account_)))
                      ELSE None
        /\ chain' = Default(parameters.chain, client.chain)
        /\ pc' = IF Len(parameters.calls) = 0 THEN "request" ELSE "map"
        /\ UNCHANGED result
  /\ UNCHANGED <<client, parameters, calls, i, log, requests, agent>>

ResolveParameters ==
  /\ pc = "start"
  /\ LET account_ == Default(parameters.account, client.account)
     IN IF ~Has(account_)
        THEN /\ result' = Thrown(Error("AccountNotFoundError"))
             /\ pc' = "done"
             /\ UNCHANGED <<account, chain>>
        ELSE /\ account' = Some(parseAccount(Val(account_)))
             /\ chain' = Default(parameters.chain, client.chain)
             /\ pc' = IF Len(parameters.calls) = 0 THEN "request" ELSE "map"
             /\ UNCHANGED result
  /\ UNCHANGED <<client, parameters, calls, i, log, requests, agent>>

(* ---------- lines 98-118: one call of the map callback ------------------- *)
\* call.chain?.id ?? call.chainId ?? chain?.id
ResolveChainId_BareFirst(call, batchChain) ==
  IF Has(call.chainId) THEN call.chainId
  ELSE IF Has(call.chain) THEN Some(Val(call.chain).id)
  ELSE IF Has(batchChain) THEN Some(Val(batchChain).id)
  ELSE None

ResolveChainId(call, batchChain) ==
  IF Has(call.chain) THEN Some(Val(call.chain).id)
  ELSE IF Has(call.chainId) THEN call.chainId
  ELSE IF Has(batchChain) THEN Some(Val(batchChain).id)
  ELSE None

\* a number is truthy when it is there and is not zero
Truthy(o) == Has(o) /\ Val(o) # 0

\* call.value ? numberToHex(call.value) : undefined
ValueField(call) ==
  IF Truthy(call.value) THEN Some(numberToHex(Val(call.value))) ELSE None

NormalizedCall(call, chainId, data) ==
  [chainId |-> numberToHex(chainId), data |-> data, to |-> call.to,
   value |-> ValueField(call)]

ChainEvent(n) == [op |-> "chain", index |-> n]
EncodeEvent(n) == [op |-> "encode", index |-> n]
RequestEvent == [op |-> "request", index |-> 0]

\* the array map builds: one entry per callback result, in call order
Collect_Dedup(done, entry) ==
  IF \E k \in DOMAIN done : done[k] = entry THEN done ELSE Append(done, entry)

Collect(done, entry) == Append(done, entry)

\* lines 99-117, the callback on the n-th call: what it throws (if anything),
\* what it did on the way, and the entry it returns
Callback_EncodeFirst(call, batchChain, n) ==
  LET chainId == ResolveChainId(call, batchChain)
      enc == encodeFunctionData(Val(call.abi), call.functionName, call.args)
  IN IF Has(call.abi) /\ ~enc.ok
     THEN [throws |-> "EncodingError", events |-> <<EncodeEvent(n)>>,
           entry |-> None]
     ELSE IF ~Truthy(chainId)
     THEN [throws |-> "ChainNotFoundError",
           events |-> IF Has(call.abi) THEN <<EncodeEvent(n), ChainEvent(n)>>
                      ELSE <<ChainEvent(n)>>,
           entry |-> None]
     ELSE [throws |-> "",
           events |-> IF Has(call.abi) THEN <<EncodeEvent(n), ChainEvent(n)>>
                      ELSE <<ChainEvent(n)>>,
           entry |-> Some(NormalizedCall(call, Val(chainId),
                            IF Has(call.abi) THEN Some(enc.data) ELSE call.data))]

Callback_NoChainCheck(call, batchChain, n) ==
  LET chainId == ResolveChainId(call, batchChain)
      enc == encodeFunctionData(Val(call.abi), call.functionName, call.args)
  IN IF Has(call.abi) /\ ~enc.ok
     THEN [throws |-> "EncodingError",
           events |-> <<ChainEvent(n), EncodeEvent(n)>>, entry |-> None]
     ELSE IF ~Has(chainId)
     THEN [throws |-> "TypeError",
           events |-> IF Has(call.abi) THEN <<ChainEvent(n), EncodeEvent(n)>>
                      ELSE <<ChainEvent(n)>>,
           entry |-> None]
     ELSE [throws |-> "",
           events |-> IF Has(call.abi) THEN <<ChainEvent(n), EncodeEvent(n)>>
                      ELSE <<ChainEvent(n)>>,
           entry |-> Some(NormalizedCall(call, Val(chainId),
                            IF Has(call.abi) THEN Some(enc.data) ELSE call.data))]

Callback(call, batchChain, n) ==
  LET chainId == ResolveChainId(call, batchChain)
      enc == encodeFunctionData(Val(call.abi), call.functionName, call.args)
  IN IF ~Truthy(chainId)
     THEN [throws |-> "ChainNotFoundError", events |-> <<ChainEvent(n)>>,
           entry |-> None]
     ELSE IF Has(call.abi)
     THEN IF enc.ok
          THEN [throws |-> "",
                events |-> <<ChainEvent(n), EncodeEvent(n)>>,
                entry |-> Some(NormalizedCall(call, Val(chainId), Some(enc.data)))]
          ELSE [throws |-> "EncodingError",
                events |-> <<ChainEvent(n), EncodeEvent(n)>>,
                entry |-> None]
     ELSE [throws |-> "", events |-> <<ChainEvent(n)>>,
           entry |-> Some(NormalizedCall(call, Val(chainId), call.data))]

\* lines 98-118: map calls the callback on the next call; a throw ends the
\* invocation, the last entry ends the map
MapCallback ==
  /\ pc = "map"
  /\ LET out == Callback(parameters.calls[i], chain, i)
     IN /\ log' = log \o out.events
        /\ IF out.throws # ""
           THEN /\ result' = Thrown(Error(out.throws))
                /\ pc' = "done"
                /\ UNCHANGED <<calls, i>>
           ELSE /\ calls' = Collect(calls, Val(out.entry))
                /\ i' = i + 1
                /\ pc' = IF i = Len(parameters.calls) THEN "request" ELSE "map"
                /\ UNCHANGED result
  /\ UNCHANGED <<client, parameters, account, chain, requests, agent>>

(* ---------- lines 136-142: the catch block ------------------------------- *)
\* getTransactionError(err, {...parameters, account, chain: parameters.chain!})
TransactionError(cause) ==
  [name |-> "TransactionExecutionError", cause |-> cause,
   account |-> account, chain |-> parameters.chain]

(* ---------- lines 120-135: the envelope and client.request --------------- *)
Version == IF Has(parameters.version) THEN Val(parameters.version) ELSE "1.0"

Envelope ==
  [method |-> "wallet_sendCalls",
   calls |-> calls,
   capabilities |-> parameters.capabilities,
   chainId |-> numberToHex(Val(chain).id),
   from |-> Val(account).address,
   version |-> Version,
   retryCount |-> 0]

Request ==
  /\ pc = "request"
  /\ IF ~Has(chain)
     THEN \* chain!.id of undefined: a TypeError inside the try block
          /\ result' = Thrown(TransactionError("TypeError"))
          /\ pc' = "done"
          /\ UNCHANGED <<requests, log>>
     ELSE /\ requests' = Append(requests, Envelope)
          /\ log' = Append(log, RequestEvent)
          /\ pc' = "await"
          /\ UNCHANGED result
  /\ UNCHANGED <<client, parameters, account, chain, calls, i, agent>>

(* ---------- the agent answers the awaited request ------------------------ *)
AgentReturn ==
  /\ pc = "await"
  /\ \E id \in AgentIds :
       /\ agent' = id
       /\ result' = Returned(id)
  /\ pc' = "done"
  /\ UNCHANGED <<client, parameters, account, chain, calls, i, log, requests>>

AgentFault_Retry ==
  /\ pc = "await"
  /\ agent' = "fault"
  /\ IF Len(requests) < 2
     THEN /\ requests' = Append(requests, requests[1])
          /\ log' = Append(log, RequestEvent)
          /\ UNCHANGED <<pc, result>>
     ELSE /\ result' = Thrown(TransactionError("RpcRequestError"))
          /\ pc' = "done"
          /\ UNCHANGED <<requests, log>>
  /\ UNCHANGED <<client, parameters, account, chain, calls, i>>

AgentFault ==
  /\ pc = "await"
  /\ agent' = "fault"
  /\ result' = Thrown(TransactionError("RpcRequestError"))
  /\ pc' = "done"
  /\ UNCHANGED <<client, parameters, account, chain, calls, i, log, requests>>

Next ==
  \/ ResolveParameters
  \/ MapCallback
  \/ Request
  \/ AgentReturn
  \/ AgentFault

Spec == Init /\ [][Next]_vars

TypeOK ==
  /\ pc \in {"start", "map", "request", "await", "done"}
  /\ i \in 1..(MaxCalls + 1)
  /\ Len(calls) = i - 1
  /\ result.status \in {"pending", "returned", "thrown"}

(* ---------- vocabulary of the properties --------------------------------- *)
Input == parameters.calls
AccountSupplied == Has(parameters.account) \/ Has(client.account)
BatchChain == IF Has(parameters.chain) THEN parameters.chain ELSE client.chain
RequestSeen == \E k \in DOMAIN log : log[k].op = "request"
ErrorName == result.error.name
Failed == pc = "done" /\ result.status = "thrown"

\* reading a hex string back: the number a canonical hex string denotes
DigitValue(d) == CHOOSE n \in 0..15 : HexDigit[n + 1] = d

RECURSIVE DigitsValue(_)
DigitsValue(ds) ==
  IF Len(ds) = 0 THEN 0
  ELSE DigitsValue(SubSeq(ds, 1, Len(ds) - 1)) * 16 + DigitValue(ds[Len(ds)])

IsCanonicalHexOf(h, n) ==
  /\ Len(h) >= 2
  /\ h[1] = "0x"
  /\ \A k \in 2..Len(h) : \E d \in DOMAIN HexDigit : HexDigit[d] = h[k]
  /\ Len(h) > 2 => h[2] # "0"
  /\ DigitsValue(Tail(h)) = n

\* the chain ids a call can draw on, in the order of precedence
Levels(call) ==
  <<IF Has(call.chain) THEN Some(Val(call.chain).id) ELSE None,
    call.chainId,
    IF Has(parameters.chain) THEN Some(Val(parameters.chain).id) ELSE None,
    IF Has(client.chain) THEN Some(Val(client.chain).id) ELSE None>>

Supplied(call) == {k \in 1..4 : Has(Levels(call)[k])}
FirstSupplied(call) ==
  Levels(call)[CHOOSE k \in Supplied(call) : \A m \in Supplied(call) : k <= m]

Unresolvable(k) == Supplied(Input[k]) = {}
ChainFails(k) ==
  Unresolvable(k) \/ Val(FirstSupplied(Input[k])) = 0
EncodeFails(k) ==
  /\ Has(Input[k].abi)
  /\ ~encodeFunctionData(Val(Input[k].abi), Input[k].functionName,
                         Input[k].args).ok
Fails(k) == ChainFails(k) \/ EncodeFails(k)

Payload(call) ==
  IF Has(call.abi)
  THEN Some(encodeFunctionData(Val(call.abi), call.functionName, call.args).data)
  ELSE call.data

\* entry out of the normalized list is made of the fields of call alone
\* (and of the batch-level chain)
DerivedFrom(out, call) ==
  /\ out.to = call.to
  /\ out.data = Payload(call)
  /\ Supplied(call) # {}
  /\ IsCanonicalHexOf(out.chainId, Val(FirstSupplied(call)))
  /\ Has(out.value) =>
       Has(call.value) /\ IsCanonicalHexOf(Val(out.value), Val(call.value))

(* ---------- C1 ----------------------------------------------------------- *)
\* C1: the calls of the wallet_sendCalls request are as many as the input
\* calls and the k-th of them is made from the k-th input call: nothing is
\* reordered, dropped, merged or deduplicated, identical calls included.
\* While map runs, the list built so far is that of the calls handled so far.
C1_OrderAndLengthPreserved ==
  /\ Len(calls) <= Len(Input)
  /\ \A k \in 1..Len(calls) : DerivedFrom(calls[k], Input[k])
  /\ pc \in {"request", "await"} => Len(calls) = Len(Input)
  /\ \A r \in 1..Len(requests) :
       /\ Len(requests[r].calls) = Len(Input)
       /\ \A k \in 1..Len(Input) : DerivedFrom(requests[r].calls[k], Input[k])

C1_Witness ==
  /\ Len(requests) = 1
  /\ Len(Input) = 2
  /\ Input[1] = Input[2]
  /\ requests[1].calls[1] = requests[1].calls[2]

(* ---------- C2 ----------------------------------------------------------- *)
\* C2: without an account in the parameters and on the client the invocation
\* ends with AccountNotFoundError and nothing else has happened: no chain was
\* resolved, nothing encoded, nothing normalized, no request made, whatever
\* the calls and the chains are.
C2_AccountMissingBeforeNormalization ==
  ~AccountSupplied =>
    /\ pc \in {"start", "done"}
    /\ log = <<>>
    /\ calls = <<>>
    /\ requests = <<>>
    /\ pc = "done" => result = Thrown(Error("AccountNotFoundError"))

C2_Witness ==
  /\ Failed
  /\ ErrorName = "AccountNotFoundError"
  /\ Len(Input) = 2
  /\ Unresolvable(1)
  /\ EncodeFails(2)

(* ---------- C6 ----------------------------------------------------------- *)
\* C6: one invocation makes at most one request, with retryCount 0; after a
\* fault of the agent the invocation has failed with exactly one request
\* made; after a success it returns the agent's identifier as it is, again
\* with exactly one request made.
C6_SingleAttemptNoRetry ==
  /\ Len(requests) <= 1
  /\ \A r \in 1..Len(requests) :
       requests[r].retryCount = 0 /\ requests[r].method = "wallet_sendCalls"
  /\ agent = "fault" => Failed /\ Len(requests) = 1
  /\ agent \in AgentIds => Len(requests) = 1
  /\ result.status = "returned" =>
       agent \in AgentIds /\ result.id = agent /\ pc = "done"

C6_Witness ==
  /\ agent = "fault"
  /\ Failed
  /\ Len(requests) = 1
  /\ requests[1].retryCount = 0

(* ---------- C3 ----------------------------------------------------------- *)
FirstUnresolvable ==
  CHOOSE k \in 1..Len(Input) :
    Unresolvable(k) /\ \A m \in 1..(k - 1) : ~Unresolvable(m)

\* a call below the first unresolvable one whose encoding fails before any
\* chain fails
EncodingFailsEarlier ==
  \E j \in 1..(FirstUnresolvable - 1) :
    EncodeFails(j) /\ \A m \in 1..j : ~ChainFails(m)

\* C3 as stated: with an account at hand and a call that has no chain at any
\* level, the invocation fails with ChainNotFoundError and no request is made.
C3_Original ==
  (pc = "done" /\ AccountSupplied /\ \E k \in 1..Len(Input) : Unresolvable(k))
    => /\ Failed
       /\ ErrorName = "ChainNotFoundError"
       /\ requests = <<>>

\* C3 (amended): with an account at hand and a call that has no chain at any
\* level, the invocation never reaches the request: no request is made at any
\* point, whatever was normalized before, and it fails with
\* ChainNotFoundError, or with the encoding error of a call of lower index
\* when that call's encoding fails before any chain does.
C3_NoDispatchWhenChainUnresolvable ==
  (AccountSupplied /\ \E k \in 1..Len(Input) : Unresolvable(k))
    => /\ requests = <<>>
       /\ ~RequestSeen
       /\ pc \in {"start", "map", "done"}
       /\ agent = "idle"
       /\ pc = "done" =>
            /\ Failed
            /\ ErrorName \in {"ChainNotFoundError", "EncodingError"}
            /\ ErrorName = "EncodingError" <=> EncodingFailsEarlier

C3_Witness ==
  /\ Failed
  /\ ErrorName = "ChainNotFoundError"
  /\ Len(Input) = 2
  /\ Len(calls) = 1
  /\ Unresolvable(2)
  /\ requests = <<>>

(* ---------- C7 ----------------------------------------------------------- *)
ChainIdsFollowPrecedence ==
  /\ \A k \in 1..Len(calls) :
       /\ Supplied(Input[k]) # {}
       /\ IsCanonicalHexOf(calls[k].chainId, Val(FirstSupplied(Input[k])))
  /\ \A r \in 1..Len(requests) : \A k \in 1..Len(requests[r].calls) :
       IsCanonicalHexOf(requests[r].calls[k].chainId,
                        Val(FirstSupplied(Input[k])))

\* the map stopped at call i
StoppedAtCall == pc = "done" /\ Has(account) /\ i <= Len(Input)

\* C7 as stated: each normalized chainId is the hex of the first id present
\* in the order descriptor, bare id, explicit batch chain, ambient chain, and
\* ChainNotFoundError is thrown only for a call that no level gives an id.
C7_Original ==
  /\ ChainIdsFollowPrecedence
  /\ ErrorName = "ChainNotFoundError" => Unresolvable(i)

\* C7 (amended): each normalized chainId is the hex of the first id present
\* in the order descriptor, bare id, explicit batch chain, ambient chain; a
\* call with both a descriptor and a bare id uses the descriptor's; and
\* ChainNotFoundError is thrown exactly for a call whose first present id is
\* zero or that no level gives an id (a zero id does not fall through to the
\* next level).
C7_ChainPrecedence ==
  /\ ChainIdsFollowPrecedence
  /\ \A k \in 1..Len(calls) : Val(FirstSupplied(Input[k])) # 0
  /\ ErrorName = "ChainNotFoundError" => StoppedAtCall /\ ChainFails(i)
  /\ StoppedAtCall /\ ChainFails(i) => ErrorName = "ChainNotFoundError"

C7_Witness ==
  /\ result.status = "returned"
  /\ Has(BatchChain)
  /\ \E k \in 1..Len(Input) :
       /\ Has(Input[k].chain)
       /\ Has(Input[k].chainId)
       /\ Val(Input[k].chain).id # Val(Input[k].chainId)
       /\ requests[1].calls[k].chainId = <<"0x", "3">>

(* ---------- C10 ---------------------------------------------------------- *)
MapEvents == {k \in DOMAIN log : log[k].op # "request"}

\* C10: calls are handled from index 1 upward and in one call the chain is
\* resolved before the payload is encoded; a failure of the normalization is
\* that of the lowest failing call, ChainNotFoundError if its chain fails
\* (its payload is then not encoded) and its encoding error otherwise; no
\* call above the failing one is chain-resolved or encoded.
C10_FailuresInCallOrder ==
  /\ \A a, b \in MapEvents :
       a < b => \/ log[a].index < log[b].index
                \/ /\ log[a].index = log[b].index
                   /\ log[a].op = "chain"
                   /\ log[b].op = "encode"
  /\ \A k \in 1..Len(calls) : ~Fails(k)
  /\ ErrorName \in {"ChainNotFoundError", "EncodingError"} =>
       /\ StoppedAtCall
       /\ Fails(i)
       /\ \A k \in 1..(i - 1) : ~Fails(k)
       /\ ErrorName = "ChainNotFoundError" <=> ChainFails(i)
       /\ ChainFails(i) => \A e \in MapEvents : log[e] # EncodeEvent(i)
       /\ \A e \in MapEvents : log[e].index <= i
       /\ \A k \in 1..i : \E e \in MapEvents : log[e] = ChainEvent(k)
  /\ StoppedAtCall => ErrorName \in {"ChainNotFoundError", "EncodingError"}

C10_Witness ==
  /\ Failed
  /\ ErrorName = "ChainNotFoundError"
  /\ Len(Input) = 2
  /\ i = 1
  /\ EncodeFails(1)
  /\ Fails(2)
  /\ log = <<ChainEvent(1)>>

(* ---------- C4 ----------------------------------------------------------- *)
\* C4: a normalized call has a value exactly when its source call carries an
\* amount, and the value is then the canonical hex of the amount: no amount
\* gives no value, an amount of zero gives 0x0.
C4_ZeroVsAbsentPreserved ==
  \A k \in 1..Len(calls) :
    /\ Has(calls[k].value) <=> Has(Input[k].value)
    /\ Has(calls[k].value) =>
         IsCanonicalHexOf(Val(calls[k].value), Val(Input[k].value))

(* ---------- C5 ----------------------------------------------------------- *)
\* C5: after a fault of the agent the caller gets a transaction error whose
\* context holds the resolved account and the resolved batch chain: the
\* explicit chain if one was passed, the client's chain otherwise.
C5_ErrorCarriesResolvedChain ==
  (pc = "done" /\ agent = "fault")
    => /\ Failed
       /\ ErrorName = "TransactionExecutionError"
       /\ result.error.account = account
       /\ result.error.chain = BatchChain

(* ---------- C8 ----------------------------------------------------------- *)
OwnChain(k) ==
  /\ Has(Input[k].chain) \/ Has(Input[k].chainId)
  /\ ~ChainFails(k)

\* C8: with an account at hand, no explicit and no ambient chain, and calls
\* that each give their own chain and encode, the request is made, and the
\* invocation fails only if the agent reports a fault.
C8_BatchChainMayBeUndefined ==
  (/\ pc = "done"
   /\ AccountSupplied
   /\ ~Has(BatchChain)
   /\ Len(Input) >= 1
   /\ \A k \in 1..Len(Input) : OwnChain(k) /\ ~EncodeFails(k))
    => /\ Len(requests) = 1
       /\ Failed => agent = "fault"

(* ---------- C9 ----------------------------------------------------------- *)
\* C9: a translated transaction error reaches the caller only when a request
\* was made and failed; a failure before the request reaches the caller as
\* it is.
C9_TranslationWrapsDispatchOnly ==
  /\ ErrorName = "TransactionExecutionError" =>
       Len(requests) = 1 /\ agent = "fault"
  /\ (Failed /\ requests = <<>>) =>
       ErrorName \in {"AccountNotFoundError", "ChainNotFoundError",
                      "EncodingError", "TypeError"}

=============================================================================
